---- MODULE Spec2Model ----
(***************************************************************************)
(* Model of the EV3 protocol codec (class EV3Protocol) and of the receive  *)
(* path of the serial-profile application (SPPBluetoothApp) of             *)
(* src/experiments/ev3d.py.                                                *)
(*                                                                         *)
(* A byte string is a sequence of integers 0..255.  A Python call that may *)
(* raise is modelled by a result record [err, bytes]: err = "none" when    *)
(* the call returns, otherwise the name of the exception raised.           *)
(***************************************************************************)
EXTENDS Integers, Sequences, FiniteSets, TLC

VARIABLES
    msg_counter,    \* EV3Protocol.msg_counter
    built,          \* number of build_message calls that returned a message
    call,           \* the last codec call: [op, args, counter] (counter before it)
    ret,            \* what the last codec call produced: [err, bytes]
    lc0_failed,     \* an encode_lc0 call on this codec has raised
    stream,         \* every byte the device sends on this connection
    wire,           \* the part of stream the transport has not delivered yet
    rx,             \* bytes in the socket's receive buffer (delivered, not yet read)
    frames,         \* the reply frames on_data_received obtained, in order
    received_text,  \* what on_data_received appended to the received-data view
    last_read,      \* the bytes the last on_data_received read
    last_reply,     \* what parse_reply returned for them
    enc_in,         \* a constant encoder and the value it is to be called with
    enc_out,        \* what that call produced: [err, bytes], or NotCalled
    impl,           \* which server runs: "slink" (experiments/slink.py) or "slink1"
    self_mode,      \* self.mode: "BT" or "BLE"
    crashed,        \* an exception left on_message_received
    clients,        \* self.clients
    closed,         \* client handles whose websocket has disconnected
    current_client, \* self.current_client
    discovered_devices, \* self.discovered_devices (its keys)
    scan_active,    \* self.bt_discovery.isActive()
    scan_found,     \* addresses self.bt_discovery reported in its latest scan
    scans,          \* number of scans self.bt_discovery has started
    transports,     \* every QBluetoothSocket / QLowEnergyController created
    bt_socket,      \* self.bt_socket: an index of transports, 0 for None
    ble_controller, \* self.ble_controller: an index of transports, 0 for None
    requests,       \* the requests handled so far, in order
    sent,           \* every sendTextMessage call, in order
    written,        \* every bt_socket.write call, in order
    events,         \* number of signals the event loop has delivered to the server
    budget          \* messages and signals the event loop delivers before it stops

codecVars == <<msg_counter, built, call, ret, lc0_failed>>
recvVars == <<stream, wire, rx, frames, received_text, last_read, last_reply>>
encVars == <<enc_in, enc_out>>
bridgeVars == <<impl, self_mode, crashed, clients, closed, current_client,
                discovered_devices, scan_active, scan_found, scans,
                transports, bt_socket, ble_controller, requests, sent, written,
                events, budget>>
outsideCodec == <<recvVars, encVars, bridgeVars>>
outsideRecv == <<codecVars, encVars, bridgeVars>>
outsideEnc == <<codecVars, recvVars, bridgeVars>>
outsideBridge == <<codecVars, recvVars, encVars>>
vars == <<msg_counter, built, call, ret, lc0_failed,
          stream, wire, rx, frames, received_text, last_read, last_reply,
          enc_in, enc_out,
          impl, self_mode, crashed, clients, closed, current_client,
          discovered_devices, scan_active, scan_found, scans,
          transports, bt_socket, ble_controller, requests, sent, written,
          events, budget>>

(***************************************************************************)
(* Bounds of the model.                                                    *)
(***************************************************************************)
MaxBuilds == 2          \* build_message calls per behaviour of Spec
MaxPayloadLen == 1      \* length of the payloads handed to build_message
Lc0Span == 33           \* encode_lc0 is called with every v in -Lc0Span..Lc0Span
WrapBuilds == 65538     \* build_message calls per behaviour of SpecWrap
MaxFrames == 2          \* reply frames per inbound stream
Lc4Window == 2          \* encode_lc4 is called within Lc4Window of each Lc4Marks value
MaxReqs == 3            \* requests the bridge handles in one behaviour
MaxEvents == 3          \* other signals (sockets, scan, transports) it handles
MaxSteps == 5           \* messages and signals together, where every kind may occur

(***************************************************************************)
(* Python integer and bytes primitives.                                    *)
(***************************************************************************)
RECURSIVE BitAnd(_, _)
\* a & b for a, b >= 0
BitAnd(a, b) ==
    IF a = 0 \/ b = 0 THEN 0
    ELSE (a % 2) * (b % 2) + 2 * BitAnd(a \div 2, b \div 2)

RECURSIVE BitOr(_, _)
\* a | b for a, b >= 0
BitOr(a, b) ==
    IF a = 0 THEN b
    ELSE IF b = 0 THEN a
    ELSE (IF a % 2 = 1 \/ b % 2 = 1 THEN 1 ELSE 0) + 2 * BitOr(a \div 2, b \div 2)

\* value & mask for any integer value and 0 <= mask < 2^16: Python's `&` works
\* on the infinite two's-complement form, so only value's low 16 bits matter
PyAnd(value, mask) == BitAnd(value % 65536, mask)

Ok(bs) == [err |-> "none", bytes |-> bs]
Raise(e) == [err |-> e, bytes |-> <<>>]

\* a + b on two results that may have raised: the left operand is evaluated
\* first, and the first exception propagates
Cat(a, b) ==
    IF a.err # "none" THEN a
    ELSE IF b.err # "none" THEN b
    ELSE Ok(a.bytes \o b.bytes)

\* bytes([...]): ValueError unless every element is in range(256)
bytes_list(xs) ==
    IF \A i \in DOMAIN xs : xs[i] \in 0..255 THEN Ok(xs) ELSE Raise("ValueError")

\* struct.pack('<H', x)
pack_H(x) ==
    IF x \in 0..65535 THEN Ok(<<x % 256, x \div 256>>) ELSE Raise("struct.error")

\* struct.pack('>h', x): the byte order reversed
pack_h_big_endian(x) ==
    IF x \in -32768..32767
    THEN Ok(<<(x % 65536) \div 256, (x % 65536) % 256>>)
    ELSE Raise("struct.error")

\* struct.pack('<h', x)
pack_h(x) ==
    IF x \in -32768..32767
    THEN Ok(<<(x % 65536) % 256, (x % 65536) \div 256>>)
    ELSE Raise("struct.error")

\* struct.unpack('>H', b)[0]: the byte order reversed
unpack_H_big_endian(b) == 256 * b[1] + b[2]

\* struct.unpack('<H', b)[0] for a 2-byte b
unpack_H(b) == b[1] + 256 * b[2]

\* struct.pack('<i', x).  Every integer the model has lies in the range of
\* '<i' (-2^31..2^31-1), so the struct.error of a wider value does not occur.
\* For x < 0 the four bytes are those of x + 2^32 = (x + 2^31) + 2^31.
pack_i(x) ==
    LET low31 == IF x >= 0 THEN x ELSE (x + 2147483647) + 1
    IN  Ok(<<low31 % 256,
             (low31 \div 256) % 256,
             (low31 \div 65536) % 256,
             (low31 \div 16777216) + (IF x >= 0 THEN 0 ELSE 128)>>)

\* data[lo:hi] with 0 <= lo <= hi (Python slicing, 0-based, clipped to len)
Slice(data, lo, hi) ==
    LET h == IF hi > Len(data) THEN Len(data) ELSE hi
    IN  IF lo >= h THEN <<>> ELSE SubSeq(data, lo + 1, h)

(***************************************************************************)
(* EV3Protocol: constants.                                                 *)
(***************************************************************************)
DIRECT_COMMAND_REPLY == 0
DIRECT_COMMAND_NO_REPLY == 128
opSOUND == 148
opOUTPUT_SPEED == 165
opOUTPUT_START == 166
opOUTPUT_STOP == 163
opINPUT_DEVICE == 153
TONE == 1
READY_SI == 29

(***************************************************************************)
(* EV3Protocol: constant encoders.                                         *)
(***************************************************************************)
\* the range test off by one: -32 and 32 are let through
encode_lc0_wide(value) ==
    IF -32 <= value /\ value <= 32
    THEN bytes_list(<<PyAnd(value, 63)>>)
    ELSE Raise("ValueError")

\* the mask one bit short: value & 0x1F
encode_lc0_mask5(value) ==
    IF -31 <= value /\ value <= 31
    THEN bytes_list(<<PyAnd(value, 31)>>)
    ELSE Raise("ValueError")

\* the two high bits set as a tag: 0xC0 | (value & 0x3F)
encode_lc0_tagged(value) ==
    IF -31 <= value /\ value <= 31
    THEN bytes_list(<<BitOr(192, PyAnd(value, 63))>>)
    ELSE Raise("ValueError")

encode_lc0(value) ==
    IF -31 <= value /\ value <= 31
    THEN bytes_list(<<PyAnd(value, 63)>>)
    ELSE Raise("ValueError")

\* the mask one bit short: value & 0x7F
encode_lc1_mask7(value) == bytes_list(<<129, PyAnd(value, 127)>>)

encode_lc1(value) == bytes_list(<<129, PyAnd(value, 255)>>)

encode_lc2(value) == Cat(bytes_list(<<130>>), pack_h(value))

encode_lc4(value) == Cat(bytes_list(<<131>>), pack_i(value))

encode_gv0(index) == bytes_list(<<BitOr(96, PyAnd(index, 31))>>)

(***************************************************************************)
(* EV3Protocol.build_message.  The result carries the counter the codec is *)
(* left with: the counter is stepped after the header and the body were    *)
(* built and before the length prefix is packed.                           *)
(***************************************************************************)
\* the counter stepped without the & 0xFFFF
NextCounterNoWrap(c) == c + 1

NextCounter(c) == PyAnd(c + 1, 65535)

\* the two sizes swapped: (global_vars << 10) | local_vars
HeaderValueSwapped(global_vars, local_vars) == BitOr(global_vars * 1024, local_vars)

\* (local_vars << 10) | global_vars
HeaderValue(global_vars, local_vars) == BitOr(local_vars * 1024, global_vars)

\* the counter bytes left out of the length: len(body)
MsgLengthNoCounter(body) == Len(body)

\* msg_length = len(body) + 2
MsgLength(body) == Len(body) + 2

build_message(counter, cmd_type, payload, global_vars, local_vars) ==
    LET header == pack_H(HeaderValue(global_vars, local_vars))
        body == Cat(Cat(bytes_list(<<cmd_type>>), header), Ok(payload))
        cnt == pack_H(counter)
        length_prefix == pack_H(MsgLength(body.bytes))
    IN  IF header.err # "none"
        THEN [err |-> header.err, bytes |-> <<>>, counter |-> counter]
        ELSE IF body.err # "none"
        THEN [err |-> body.err, bytes |-> <<>>, counter |-> counter]
        ELSE IF cnt.err # "none"
        THEN [err |-> cnt.err, bytes |-> <<>>, counter |-> counter]
        ELSE IF length_prefix.err # "none"
        THEN [err |-> length_prefix.err, bytes |-> <<>>,
              counter |-> NextCounter(counter)]
        ELSE [err |-> "none",
              bytes |-> length_prefix.bytes \o cnt.bytes \o body.bytes,
              counter |-> NextCounter(counter)]

\* a command whose payload expression raised never reaches build_message
Command(counter, cmd_type, payload, global_vars) ==
    IF payload.err # "none"
    THEN [err |-> payload.err, bytes |-> <<>>, counter |-> counter]
    ELSE build_message(counter, cmd_type, payload.bytes, global_vars, 0)

\* the two command types exchanged
play_tone_types_swapped(counter, volume, frequency, duration, reply) ==
    Command(counter,
            IF reply THEN DIRECT_COMMAND_NO_REPLY ELSE DIRECT_COMMAND_REPLY,
            Cat(Cat(Cat(bytes_list(<<opSOUND, TONE>>), encode_lc1(volume)),
                    encode_lc2(frequency)),
                encode_lc2(duration)),
            0)

play_tone(counter, volume, frequency, duration, reply) ==
    Command(counter,
            IF reply THEN DIRECT_COMMAND_REPLY ELSE DIRECT_COMMAND_NO_REPLY,
            Cat(Cat(Cat(bytes_list(<<opSOUND, TONE>>), encode_lc1(volume)),
                    encode_lc2(frequency)),
                encode_lc2(duration)),
            0)

\* no global-variable space reserved
read_sensor_no_globals(counter, port, mode) ==
    Command(counter, DIRECT_COMMAND_REPLY,
            Cat(Cat(Cat(Cat(Cat(Cat(bytes_list(<<opINPUT_DEVICE, READY_SI>>),
                                    encode_lc0(0)),
                                encode_lc0(port)),
                            encode_lc0(0)),
                        encode_lc0(mode)),
                    encode_lc0(1)),
                encode_gv0(0)),
            0)

read_sensor(counter, port, mode) ==
    Command(counter, DIRECT_COMMAND_REPLY,
            Cat(Cat(Cat(Cat(Cat(Cat(bytes_list(<<opINPUT_DEVICE, READY_SI>>),
                                    encode_lc0(0)),
                                encode_lc0(port)),
                            encode_lc0(0)),
                        encode_lc0(mode)),
                    encode_lc0(1)),
                encode_gv0(0)),
            4)

stop_motor(counter, motor_bits, brake) ==
    Command(counter, DIRECT_COMMAND_NO_REPLY,
            Cat(Cat(bytes_list(<<opOUTPUT_STOP, 0>>), encode_lc0(motor_bits)),
                encode_lc0(IF brake THEN 1 ELSE 0)),
            0)

\* the start sub-command ahead of the set-speed sub-command
start_motor_start_first(counter, motor_bits, speed) ==
    Command(counter, DIRECT_COMMAND_NO_REPLY,
            Cat(Cat(bytes_list(<<opOUTPUT_START, 0>>), encode_lc0(motor_bits)),
                Cat(Cat(bytes_list(<<opOUTPUT_SPEED, 0>>), encode_lc0(motor_bits)),
                    encode_lc1(speed))),
            0)

start_motor(counter, motor_bits, speed) ==
    Command(counter, DIRECT_COMMAND_NO_REPLY,
            Cat(Cat(Cat(bytes_list(<<opOUTPUT_SPEED, 0>>), encode_lc0(motor_bits)),
                    encode_lc1(speed)),
                Cat(bytes_list(<<opOUTPUT_START, 0>>), encode_lc0(motor_bits))),
            0)

(***************************************************************************)
(* EV3Protocol.parse_reply.  None is the record with ok = FALSE.           *)
(***************************************************************************)
None == [ok |-> FALSE, size |-> 0, counter |-> 0, type |-> 0, payload |-> <<>>]

MinReplyLen == 5

parse_reply(data) ==
    IF Len(data) < MinReplyLen THEN None
    ELSE [ok |-> TRUE,
          size |-> unpack_H(Slice(data, 0, 2)),
          counter |-> unpack_H(Slice(data, 2, 4)),
          type |-> data[5],
          payload |-> IF Len(data) > 5 THEN Slice(data, 5, Len(data)) ELSE <<>>]

(***************************************************************************)
(* The device side: a complete reply frame as the brick sends it, in the   *)
(* layout parse_reply reads (length, counter, type, payload).              *)
(***************************************************************************)
DIRECT_REPLY == 2
DIRECT_REPLY_ERROR == 4

ReplyFrame(counter, type, payload) ==
    pack_H(Len(payload) + 3).bytes \o pack_H(counter).bytes \o <<type>> \o payload

\* an error reply without payload and a sensor reading (the float 1.0)
FrameSet ==
    { ReplyFrame(1, DIRECT_REPLY_ERROR, <<>>),
      ReplyFrame(258, DIRECT_REPLY, <<0, 0, 128, 63>>) }

RECURSIVE Flatten(_)
Flatten(fs) == IF fs = <<>> THEN <<>> ELSE Head(fs) \o Flatten(Tail(fs))

\* the inbound byte streams: 1..MaxFrames complete frames back to back
Streams ==
    { Flatten(fs) : fs \in UNION { [1..n -> FrameSet] : n \in 1..MaxFrames } }

(***************************************************************************)
(* The inputs of the codec calls.                                          *)
(***************************************************************************)
CmdTypes == {0, 128, 255, 256}
ByteSamples == {0, 255}
TonePayload == <<148, 1, 129, 2, 130, 232, 3, 130, 232, 3>>
Payloads ==
    UNION { [1..n -> ByteSamples] : n \in 0..MaxPayloadLen } \cup {TonePayload}
GlobalVals == {0, 1023, 1024}
LocalVals == {0, 63, 64}
Volumes == {2, -1}
Frequencies == {1000, 32768}
Durations == {1000, -32769}
Ports == {-32, -31, 0, 3, 31}
Modes == {-1, 0, 31, 32}
MotorBits == {2, 15, 32}
Speeds == {50, -100}
Lc0Inputs == (0 - Lc0Span)..Lc0Span

(***************************************************************************)
(* State after construction: EV3Protocol.__init__ and                      *)
(* SPPBluetoothApp.__init__, with nothing received yet.                    *)
(***************************************************************************)
NoCall == [op |-> "none", args |-> <<>>, counter |-> 0]

InitCodec ==
    /\ msg_counter = 0
    /\ built = 0
    /\ call = NoCall
    /\ ret = Ok(<<>>)
    /\ lc0_failed = FALSE

InitRecv(streams) ==
    /\ stream \in streams
    /\ wire = stream
    /\ rx = <<>>
    /\ frames = <<>>
    /\ received_text = <<>>
    /\ last_read = <<>>
    /\ last_reply = None

NoInput == [op |-> "none", value |-> 0]
NotCalled == [err |-> "not called", bytes |-> <<>>]

InitEnc(inputs) ==
    /\ enc_in \in inputs
    /\ enc_out = NotCalled

\* ScratchLinkServer.__init__.  slink1.py does not assign current_client.
InitBridge(impls, modes, steps) ==
    /\ budget = steps
    /\ impl \in impls
    /\ self_mode \in modes
    /\ crashed = FALSE
    /\ clients = {}
    /\ closed = {}
    /\ current_client = IF impl = "slink" THEN "None" ELSE "unset"
    /\ discovered_devices = {}
    /\ scan_active = FALSE
    /\ scan_found = {}
    /\ scans = 0
    /\ transports = <<>>
    /\ bt_socket = 0
    /\ ble_controller = 0
    /\ requests = <<>>
    /\ sent = <<>>
    /\ written = <<>>
    /\ events = 0

NoBridge == InitBridge({"slink"}, {"BT"}, 0)

Init == InitCodec /\ InitRecv({<<>>}) /\ InitEnc({NoInput}) /\ NoBridge

(***************************************************************************)
(* Codec calls.  r is the [err, bytes, counter] result of the call.        *)
(***************************************************************************)
Returned(op, args, r) ==
    /\ call' = [op |-> op, args |-> args, counter |-> msg_counter]
    /\ ret' = [err |-> r.err, bytes |-> r.bytes]
    /\ msg_counter' = r.counter
    /\ built' = IF r.err = "none" THEN built + 1 ELSE built
    /\ UNCHANGED lc0_failed
    /\ UNCHANGED outsideCodec

BuildMessageFrom(cmds, payloads, gvs, lvs, limit) ==
    /\ built < limit
    /\ \E c \in cmds, p \in payloads, g \in gvs, l \in lvs :
          Returned("build_message", <<c, p, g, l>>,
                   build_message(msg_counter, c, p, g, l))

BuildMessage == BuildMessageFrom(CmdTypes, Payloads, GlobalVals, LocalVals, MaxBuilds)

PlayTone ==
    /\ built < MaxBuilds
    /\ \E v \in Volumes, f \in Frequencies, d \in Durations, r \in BOOLEAN :
          Returned("play_tone", <<v, f, d, r>>, play_tone(msg_counter, v, f, d, r))

ReadSensor ==
    /\ built < MaxBuilds
    /\ \E p \in Ports, m \in Modes :
          Returned("read_sensor", <<p, m>>, read_sensor(msg_counter, p, m))

StopMotor ==
    /\ built < MaxBuilds
    /\ \E b \in MotorBits, k \in BOOLEAN :
          Returned("stop_motor", <<b, k>>, stop_motor(msg_counter, b, k))

StartMotor ==
    /\ built < MaxBuilds
    /\ \E b \in MotorBits, s \in Speeds :
          Returned("start_motor", <<b, s>>, start_motor(msg_counter, b, s))

\* a direct call of the static encoder: it has no access to the codec object
EncodeLc0 ==
    \E v \in Lc0Inputs :
        /\ call' = [op |-> "encode_lc0", args |-> <<v>>, counter |-> msg_counter]
        /\ ret' = encode_lc0(v)
        /\ lc0_failed' = (lc0_failed \/ encode_lc0(v).err # "none")
        /\ UNCHANGED <<msg_counter, built>>
        /\ UNCHANGED outsideCodec

Next == BuildMessage \/ PlayTone \/ ReadSensor \/ StopMotor \/ StartMotor \/ EncodeLc0

Spec == Init /\ [][Next]_vars

(***************************************************************************)
(* The counter over a full cycle: 65536 and more messages of one codec.    *)
(***************************************************************************)
BuildWrap == BuildMessageFrom({DIRECT_COMMAND_NO_REPLY}, {<<>>}, {0}, {0}, WrapBuilds)

SpecWrap == Init /\ [][BuildWrap]_vars

(***************************************************************************)
(* Payloads at the limit of the 16-bit length prefix.                      *)
(***************************************************************************)
\* the shortest payload for which len(body) + 2 exceeds 65535
LongLen == 65531

LongPayload == [i \in 1..LongLen |-> 0]

\* build_message with a payload of LongLen bytes, or of one byte less
BuildLong ==
    /\ msg_counter < MaxBuilds
    /\ BuildMessageFrom({DIRECT_COMMAND_NO_REPLY},
                        {LongPayload, SubSeq(LongPayload, 1, LongLen - 1)},
                        {0}, {0}, MaxBuilds)

NextLong == Next \/ BuildLong

SpecLong == Init /\ [][NextLong]_vars

(***************************************************************************)
(* The receive path of SPPBluetoothApp.                                    *)
(***************************************************************************)
\* the transport moves the next n bytes into the socket's receive buffer
Deliver ==
    \E n \in 1..Len(wire) :
        /\ rx' = rx \o SubSeq(wire, 1, n)
        /\ wire' = SubSeq(wire, n + 1, Len(wire))
        /\ UNCHANGED <<stream, frames, received_text, last_read, last_reply>>
        /\ UNCHANGED outsideRecv

\* what the handler appends to the received-data view: the sensor value and
\* the hex payload of a parsed reply, or the raw bytes (as text or as binary)
Shown(reply) ==
    IF reply.ok
    THEN IF reply.payload = <<>> THEN <<>>
         ELSE (IF Len(reply.payload) = 4 THEN <<"Sensor">> ELSE <<>>) \o <<"Hex">>
    ELSE <<"Raw">>

\* readyRead: readAll, then parse_reply on what was read
on_data_received ==
    /\ rx # <<>>
    /\ LET reply == parse_reply(rx)
       IN  /\ last_read' = rx
           /\ last_reply' = reply
           /\ frames' = IF reply.ok THEN Append(frames, reply) ELSE frames
           /\ received_text' = received_text \o Shown(reply)
    /\ rx' = <<>>
    /\ UNCHANGED <<stream, wire>>
    /\ UNCHANGED outsideRecv

NextRecv == Deliver \/ on_data_received

InitReceive == InitCodec /\ InitRecv(Streams) /\ InitEnc({NoInput}) /\ NoBridge

SpecRecv == InitReceive /\ [][NextRecv]_vars

(***************************************************************************)
(* The constant encoders as functions of their argument: each behaviour    *)
(* calls one encoder once, on a value of its range.                        *)
(***************************************************************************)
Lc4Marks == {0, 128, 256, 32768, 65536, 8388608, 16777216, 1000000000}

Lc4Inputs ==
    { m + d : m \in Lc4Marks, d \in (0 - Lc4Window)..Lc4Window }
    \cup { (0 - m) + d : m \in Lc4Marks, d \in (0 - Lc4Window)..Lc4Window }
    \cup { 2147483647 - d : d \in 0..Lc4Window }
    \cup { ((0 - 2147483647) - 1) + d : d \in 0..Lc4Window }

EncoderInputs ==
    [op : {"encode_lc0"}, value : Lc0Inputs]
    \cup [op : {"encode_lc1"}, value : -128..127]
    \cup [op : {"encode_lc2"}, value : -32768..32767]
    \cup [op : {"encode_lc4"}, value : Lc4Inputs]

Encoder(op, value) ==
    CASE op = "encode_lc0" -> encode_lc0(value)
      [] op = "encode_lc1" -> encode_lc1(value)
      [] op = "encode_lc2" -> encode_lc2(value)
      [] op = "encode_lc4" -> encode_lc4(value)

ApplyEncoder ==
    /\ enc_in.op # "none"
    /\ enc_out = NotCalled
    /\ enc_out' = Encoder(enc_in.op, enc_in.value)
    /\ UNCHANGED enc_in
    /\ UNCHANGED outsideEnc

InitEncode == InitCodec /\ InitRecv({<<>>}) /\ InitEnc(EncoderInputs) /\ NoBridge

SpecEncode == InitEncode /\ [][ApplyEncoder]_vars

(***************************************************************************)
(* The Scratch Link bridge: class ScratchLinkServer of experiments/slink.py *)
(* (impl = "slink") and of slink1.py (impl = "slink1").  A sent entry is   *)
(* one sendTextMessage call: the handle it was made on, the JSON text, and *)
(* the handler activation that made it.                                    *)
(***************************************************************************)
\* the client handles, in the order nextPendingConnection returns them
Handles == <<"c1", "c2">>
Clients == { Handles[k] : k \in DOMAIN Handles }
Addrs == {"A1", "A2"}

\* the decoded payload of a send request
Payload == <<7, 0>>

\* JSON null
Null == <<>>

\* {'jsonrpc': '2.0', 'id': id, 'result': result}
Success(id, result) ==
    [kind |-> "result", id |-> id, result |-> result,
     message |-> "", peripheralId |-> "", data |-> <<>>]

\* send_error: {'jsonrpc': '2.0', 'error': {'message': message}}; about is the
\* peripheral id the f-string puts into the message, "" when it has none
ErrorMsg(message, about) ==
    [kind |-> "error", id |-> 0, result |-> Null,
     message |-> message, peripheralId |-> about, data |-> <<>>]

\* {'jsonrpc': '2.0', 'method': 'didDiscoverPeripheral', 'params': {...}}
DidDiscover(address) ==
    [kind |-> "didDiscoverPeripheral", id |-> 0, result |-> Null,
     message |-> "", peripheralId |-> address, data |-> <<>>]

\* base64.b64encode of up to three bytes: four symbols, each the index of a
\* character in the base64 alphabet, 64 standing for the padding '='
b64group(b) ==
    IF Len(b) = 3
    THEN <<b[1] \div 4, (b[1] % 4) * 16 + b[2] \div 16,
           (b[2] % 16) * 4 + b[3] \div 64, b[3] % 64>>
    ELSE IF Len(b) = 2
    THEN <<b[1] \div 4, (b[1] % 4) * 16 + b[2] \div 16, (b[2] % 16) * 4, 64>>
    ELSE <<b[1] \div 4, (b[1] % 4) * 16, 64, 64>>

RECURSIVE b64encode(_)
b64encode(bytes) ==
    IF bytes = <<>> THEN <<>>
    ELSE IF Len(bytes) <= 3 THEN b64group(bytes)
    ELSE b64group(SubSeq(bytes, 1, 3)) \o b64encode(SubSeq(bytes, 4, Len(bytes)))

\* {'jsonrpc': '2.0', 'method': 'didReceiveMessage',
\*  'params': {'message': encoded, 'encoding': 'base64'}}
DidReceive(bytes) ==
    [kind |-> "didReceiveMessage", id |-> 0, result |-> Null,
     message |-> "", peripheralId |-> "", data |-> b64encode(bytes)]

Activation(handler, req, scan) == [handler |-> handler, req |-> req, scan |-> scan]

Sends(msgs, by) == [k \in DOMAIN msgs |-> [to |-> msgs[k].to, msg |-> msgs[k].msg, by |-> by]]

\* handle_discover answering nothing
handle_discover_silent(client, id) == <<>>

\* what handle_discover sends
handle_discover_replies(client, id) == <<[to |-> client, msg |-> Success(id, Null)]>>

\* no lookup of the peripheral id
in_registry_any(peripheral_id, registry) == TRUE

\* peripheral_id in self.discovered_devices
in_registry(peripheral_id, registry) == peripheral_id \in registry

\* the acknowledgment carrying the id of the latest request handled
on_connected_latest(t) == <<[to |-> t.client, msg |-> Success(Len(requests), Null)]>>

\* on_bt_connected / on_ble_connected, called through the lambda that captured
\* (client, data) of the connect request
on_connected(t) == <<[to |-> t.client, msg |-> Success(t.req, Null)]>>

\* on_bt_error / on_ble_error through the lambda that captured client
on_error(t) ==
    <<[to |-> t.client,
       msg |-> ErrorMsg(IF t.kind = "bt" THEN "Bluetooth error" ELSE "BLE error", "")]>>

\* a python-owned Qt object is deleted when its last reference is rebound
Destroy(ts, i) == IF i = 0 THEN ts ELSE [ts EXCEPT ![i].alive = FALSE]

Transport(kind, client, id, peripheral_id) ==
    [kind |-> kind, client |-> client, req |-> id, peripheralId |-> peripheral_id,
     state |-> "connecting", opened |-> FALSE, alive |-> TRUE,
     buffered |-> <<>>, received |-> <<>>]

\* a signal other than textMessageReceived reaches its slot
Signalled ==
    /\ ~crashed
    /\ events < MaxEvents
    /\ Len(requests) + events < budget
    /\ events' = events + 1
    /\ UNCHANGED budget

\* on_message_received reaches a handler: the process runs, the message came
\* from an open client socket
Receives(client, method, peripheral_id) ==
    /\ ~crashed
    /\ client \in clients
    /\ Len(requests) < MaxReqs
    /\ Len(requests) + events < budget
    /\ UNCHANGED <<events, budget>>
    /\ requests' = Append(requests, [client |-> client, method |-> method,
                                     id |-> Len(requests) + 1,
                                     peripheralId |-> peripheral_id])

on_new_connection ==
    LET arrived == Cardinality(clients \cup closed)
    IN  /\ Signalled
        /\ arrived < Len(Handles)
        /\ clients' = clients \cup {Handles[arrived + 1]}
        /\ UNCHANGED <<impl, self_mode, crashed, closed, current_client,
                       discovered_devices, scan_active, scan_found, scans,
                       transports, bt_socket, ble_controller, requests, sent,
                       written>>
        /\ UNCHANGED outsideBridge

on_client_disconnected ==
    \E client \in clients :
        /\ Signalled
        /\ clients' = clients \ {client}
        /\ closed' = closed \cup {client}
        /\ UNCHANGED <<impl, self_mode, crashed, current_client,
                       discovered_devices, scan_active, scan_found, scans,
                       transports, bt_socket, ble_controller, requests, sent,
                       written>>
        /\ UNCHANGED outsideBridge

\* QBluetoothDeviceDiscoveryAgent.start() does nothing while a scan is active
handle_discover ==
    \E client \in Clients :
        LET id == Len(requests) + 1
            starts == ~scan_active
        IN  /\ Receives(client, "discover", "")
            /\ current_client' = client
            /\ scan_active' = TRUE
            /\ scan_found' = IF starts THEN {} ELSE scan_found
            /\ scans' = IF starts THEN scans + 1 ELSE scans
            /\ sent' = sent \o Sends(handle_discover_replies(client, id),
                                     Activation("handle_discover", id,
                                                IF starts THEN scans + 1 ELSE 0))
            /\ UNCHANGED <<impl, self_mode, crashed, clients, closed,
                           discovered_devices, transports, bt_socket,
                           ble_controller, written>>
            /\ UNCHANGED outsideBridge

\* the agent reports an address once per scan.  hasattr(self, 'current_client')
\* is false only in slink1.py before the first discover; None has no
\* sendTextMessage.
on_device_discovered ==
    \E address \in Addrs :
        /\ Signalled
        /\ scan_active
        /\ address \notin scan_found
        /\ scan_found' = scan_found \cup {address}
        /\ discovered_devices' = IF impl = "slink"
                                 THEN discovered_devices \cup {address}
                                 ELSE discovered_devices
        /\ crashed' = (current_client = "None")
        /\ sent' = IF current_client \in {"unset", "None"}
                   THEN sent
                   ELSE sent \o Sends(<<[to |-> current_client,
                                         msg |-> DidDiscover(address)]>>,
                                      Activation("on_device_discovered", 0, scans))
        /\ UNCHANGED <<impl, self_mode, clients, closed, current_client,
                       scan_active, scans, transports, bt_socket,
                       ble_controller, requests, written>>
        /\ UNCHANGED outsideBridge

on_discovery_finished ==
    /\ Signalled
    /\ scan_active
    /\ scan_active' = FALSE
    /\ UNCHANGED <<impl, self_mode, crashed, clients, closed, current_client,
                   discovered_devices, scan_found, scans, transports,
                   bt_socket, ble_controller, requests, sent, written>>
    /\ UNCHANGED outsideBridge

\* every mode taken for classic Bluetooth
classic_always(mode) == TRUE

\* self.mode == 'BT'
classic(mode) == mode = "BT"

\* handle_connect with every Qt call accepted by the binding.  A socket or
\* controller constructed without a parent is deleted when self.bt_socket or
\* self.ble_controller is rebound; the controller of experiments/slink.py is
\* created with parent self and outlives the rebinding.
handle_connect ==
    \E client \in Clients, peripheral_id \in Addrs :
        LET id == Len(requests) + 1
            at == Len(transports) + 1
            creates == \/ classic(self_mode)
                       \/ impl = "slink1"
                       \/ in_registry(peripheral_id, discovered_devices)
        IN  /\ Receives(client, "connect", peripheral_id)
            /\ current_client' = IF impl = "slink" THEN client ELSE current_client
            /\ transports' =
                  IF ~creates THEN transports
                  ELSE IF classic(self_mode)
                  THEN Append(Destroy(transports, bt_socket),
                              Transport("bt", client, id, peripheral_id))
                  ELSE IF impl = "slink1"
                  THEN Append(Destroy(transports, ble_controller),
                              Transport("ble", client, id, peripheral_id))
                  ELSE Append(transports,
                              Transport("ble", client, id, peripheral_id))
            /\ bt_socket' = IF classic(self_mode) THEN at ELSE bt_socket
            /\ ble_controller' = IF ~classic(self_mode) /\ creates THEN at ELSE ble_controller
            /\ sent' = IF creates THEN sent
                       ELSE sent \o Sends(<<[to |-> client,
                                             msg |-> ErrorMsg("Device not found. Please discover devices first.",
                                                              peripheral_id)]>>,
                                          Activation("handle_connect", id, 0))
            /\ UNCHANGED <<impl, self_mode, crashed, clients, closed,
                           discovered_devices, scan_active, scan_found, scans,
                           written>>
            /\ UNCHANGED outsideBridge

\* slink1.py names QBluetoothSocket.SocketType and passes a QBluetoothAddress
\* to QLowEnergyController.createCentral; a binding that has neither raises
\* before anything is assigned, and on_message_received catches only
\* json.JSONDecodeError.
handle_connect_raises ==
    \E client \in Clients, peripheral_id \in Addrs :
        /\ impl = "slink1"
        /\ Receives(client, "connect", peripheral_id)
        /\ crashed' = TRUE
        /\ UNCHANGED <<impl, self_mode, clients, closed, current_client,
                       discovered_devices, scan_active, scan_found, scans,
                       transports, bt_socket, ble_controller, sent, written>>
        /\ UNCHANGED outsideBridge

\* no look at the socket state
socket_connected_any(ts, socket) == TRUE

\* self.bt_socket.state() == QBluetoothSocket.SocketState.ConnectedState
socket_connected(ts, socket) == ts[socket].state = "connected"

\* QIODevice.write on an open socket takes the whole payload; on a socket that
\* is not open it writes nothing
handle_send ==
    \E client \in Clients :
        LET id == Len(requests) + 1
            by == Activation("handle_send", id, 0)
            has_socket == self_mode = "BT" /\ bt_socket # 0
            connected == has_socket /\ socket_connected(transports, bt_socket)
            writes == has_socket /\ (impl = "slink1" \/ connected)
        IN  /\ Receives(client, "send", "")
            /\ written' = IF writes
                          THEN Append(written, [socket |-> bt_socket,
                                                payload |-> Payload,
                                                accepted |-> connected])
                          ELSE written
            /\ sent' =
                  IF writes
                  THEN sent \o Sends(<<[to |-> client,
                                        msg |-> Success(id, <<Len(Payload)>>)]>>, by)
                  ELSE IF impl = "slink1" THEN sent
                  ELSE IF has_socket
                  THEN sent \o Sends(<<[to |-> client,
                                        msg |-> ErrorMsg("Bluetooth socket not connected", "")]>>, by)
                  ELSE sent \o Sends(<<[to |-> client,
                                        msg |-> ErrorMsg("No Bluetooth connection available", "")]>>, by)
            /\ UNCHANGED <<impl, self_mode, crashed, clients, closed, current_client,
                           discovered_devices, scan_active, scan_found, scans,
                           transports, bt_socket, ble_controller>>
            /\ UNCHANGED outsideBridge

\* the connected signal of a socket or controller that is connecting
transport_connected ==
    \E t \in DOMAIN transports :
        /\ Signalled
        /\ transports[t].alive
        /\ transports[t].state = "connecting"
        /\ transports' = [transports EXCEPT ![t].state = "connected",
                                          ![t].opened = TRUE]
        /\ sent' = sent \o Sends(on_connected(transports[t]),
                                 Activation(IF transports[t].kind = "bt"
                                            THEN "on_bt_connected"
                                            ELSE "on_ble_connected",
                                            transports[t].req, 0))
        /\ UNCHANGED <<impl, self_mode, crashed, clients, closed, current_client,
                       discovered_devices, scan_active, scan_found, scans,
                       bt_socket, ble_controller, requests, written>>
        /\ UNCHANGED outsideBridge

\* the errorOccurred signal: the connect failed, or the open link broke
transport_error ==
    \E t \in DOMAIN transports :
        /\ Signalled
        /\ transports[t].alive
        /\ transports[t].state \in {"connecting", "connected"}
        /\ transports' = [transports EXCEPT ![t].state = "unconnected"]
        /\ sent' = sent \o Sends(on_error(transports[t]),
                                 Activation(IF transports[t].kind = "bt"
                                            THEN "on_bt_error"
                                            ELSE "on_ble_error",
                                            transports[t].req, 0))
        /\ UNCHANGED <<impl, self_mode, crashed, clients, closed, current_client,
                       discovered_devices, scan_active, scan_found, scans,
                       bt_socket, ble_controller, requests, written>>
        /\ UNCHANGED outsideBridge

NextBridge ==
    \/ on_new_connection
    \/ on_client_disconnected
    \/ handle_discover
    \/ handle_connect
    \/ handle_connect_raises
    \/ handle_send
    \/ on_device_discovered
    \/ on_discovery_finished
    \/ transport_connected
    \/ transport_error

InitServer ==
    InitCodec /\ InitRecv({<<>>}) /\ InitEnc({NoInput})
    /\ InitBridge({"slink", "slink1"}, {"BT", "BLE"}, MaxReqs + MaxEvents)

SpecBridge == InitServer /\ [][NextBridge]_vars

(***************************************************************************)
(* The remaining paths of on_message_received, and the bytes a connected   *)
(* socket receives.                                                        *)
(***************************************************************************)
\* what the device sends in one piece
Chunks == {<<255>>, <<1, 2>>}

\* method names with no handler; "None" is data.get('method') of a request
\* that has no method field
UnknownMethods == {"foo", "None"}

\* client messages json.loads cannot decode, or decodes to something other
\* than a dict
Undecodable == {"not JSON", "JSON list"}

\* the error naming no method
unknown_method_unnamed(client, method) ==
    <<[to |-> client, msg |-> ErrorMsg("Unknown method", "")]>>

\* send_error(client, f"Unknown method: {method}")
unknown_method(client, method) ==
    <<[to |-> client,
       msg |-> ErrorMsg(IF method = "None" THEN "Unknown method: None"
                        ELSE "Unknown method: foo", "")]>>

\* a read that takes one byte
read_one(buffered, available) == SubSeq(buffered, 1, 1)

\* self.bt_socket.read(available)
read(buffered, available) == SubSeq(buffered, 1, available)

\* bytesAvailable() of a socket that is not open is 0
handle_read ==
    \E client \in Clients :
        LET id == Len(requests) + 1
            has_socket == self_mode = "BT" /\ bt_socket # 0
            available == IF has_socket THEN Len(transports[bt_socket].buffered) ELSE 0
            data_bytes == read(transports[bt_socket].buffered, available)
        IN  /\ Receives(client, "read", "")
            /\ sent' = IF available > 0
                       THEN sent \o Sends(<<[to |-> client, msg |-> DidReceive(data_bytes)]>>,
                                          Activation("handle_read", id, 0))
                       ELSE sent
            /\ transports' =
                  IF available > 0
                  THEN [transports EXCEPT ![bt_socket].buffered =
                            SubSeq(@, Len(data_bytes) + 1, Len(@))]
                  ELSE transports
            /\ UNCHANGED <<impl, self_mode, crashed, clients, closed, current_client,
                           discovered_devices, scan_active, scan_found, scans,
                           bt_socket, ble_controller, written>>
            /\ UNCHANGED outsideBridge

\* a read that takes only the newest byte
readAll_newest(buffered) == SubSeq(buffered, Len(buffered), Len(buffered))

\* self.bt_socket.readAll()
readAll(buffered) == buffered

\* bytes arrive on a connected socket and it emits readyRead.  In
\* experiments/slink.py the signal runs on_bt_data_ready(client), which reads
\* all of self.bt_socket; slink1.py connects nothing to it.  received is every
\* byte the socket was sent, read or not.
ready_read ==
    \E t \in DOMAIN transports, chunk \in Chunks :
        LET arrived == [transports EXCEPT ![t].buffered = @ \o chunk,
                                          ![t].received = @ \o chunk]
            drains == /\ impl = "slink"
                      /\ bt_socket # 0
                      /\ Len(arrived[bt_socket].buffered) > 0
        IN  /\ Signalled
            /\ transports[t].kind = "bt"
            /\ transports[t].alive
            /\ transports[t].state = "connected"
            /\ sent' = IF drains
                       THEN sent \o Sends(<<[to |-> transports[t].client,
                                             msg |-> DidReceive(readAll(arrived[bt_socket].buffered))]>>,
                                          Activation("on_bt_data_ready",
                                                     transports[t].req, 0))
                       ELSE sent
            /\ transports' = IF drains
                             THEN [arrived EXCEPT ![bt_socket].buffered = <<>>]
                             ELSE arrived
            /\ UNCHANGED <<impl, self_mode, crashed, clients, closed, current_client,
                           discovered_devices, scan_active, scan_found, scans,
                           bt_socket, ble_controller, requests, written>>
            /\ UNCHANGED outsideBridge

\* the else branch of the dispatch
handle_unknown ==
    \E client \in Clients, method \in UnknownMethods :
        /\ Receives(client, method, "")
        /\ sent' = sent \o Sends(unknown_method(client, method),
                                 Activation("on_message_received",
                                            Len(requests) + 1, 0))
        /\ UNCHANGED <<impl, self_mode, crashed, clients, closed, current_client,
                       discovered_devices, scan_active, scan_found, scans,
                       transports, bt_socket, ble_controller, written>>
        /\ UNCHANGED outsideBridge

\* json.loads raises JSONDecodeError, which is caught; or it returns a list,
\* number, string or None, and data.get raises AttributeError, which is not:
\* the exception leaves the slot and PyQt6 aborts the process
undecodable_message ==
    \E client \in Clients, text \in Undecodable :
        /\ Receives(client, text, "")
        /\ crashed' = (text # "not JSON")
        /\ sent' = IF text = "not JSON"
                   THEN sent \o Sends(<<[to |-> client, msg |-> ErrorMsg("Invalid JSON", "")]>>,
                                      Activation("on_message_received",
                                                 Len(requests) + 1, 0))
                   ELSE sent
        /\ UNCHANGED <<impl, self_mode, clients, closed, current_client,
                       discovered_devices, scan_active, scan_found, scans,
                       transports, bt_socket, ble_controller, written>>
        /\ UNCHANGED outsideBridge

NextMessages ==
    \/ NextBridge
    \/ handle_read
    \/ ready_read
    \/ handle_unknown
    \/ undecodable_message

InitMessages ==
    InitCodec /\ InitRecv({<<>>}) /\ InitEnc({NoInput})
    /\ InitBridge({"slink", "slink1"}, {"BT", "BLE"}, MaxSteps)

SpecMessages == InitMessages /\ [][NextMessages]_vars

(***************************************************************************)
(* A server with one client whose classic socket is open: the state after  *)
(* on_new_connection, handle_connect and the socket's connected signal.    *)
(* From there the link may close, and send requests may fail to decode.    *)
(***************************************************************************)
\* send requests whose payload conversion raises: no 'message' in params
\* (base64.b64decode(None): TypeError), a base64 text with incorrect padding
\* (binascii.Error), another encoding and no 'message' (None.encode():
\* AttributeError)
BadSends == {"send without message", "send with bad padding",
             "send as text without message"}

\* the disconnected signal of a socket or controller whose link has closed
\* with no error reported.  handle_connect connects slots only to connected,
\* errorOccurred and (experiments/slink.py) readyRead.
transport_disconnected ==
    \E t \in DOMAIN transports :
        /\ Signalled
        /\ transports[t].alive
        /\ transports[t].state = "connected"
        /\ transports' = [transports EXCEPT ![t].state = "unconnected"]
        /\ UNCHANGED <<impl, self_mode, crashed, clients, closed, current_client,
                       discovered_devices, scan_active, scan_found, scans,
                       bt_socket, ble_controller, requests, sent, written>>
        /\ UNCHANGED outsideBridge

\* handle_send converts the payload before it looks at the socket; the
\* exception is none that on_message_received catches
handle_send_raises ==
    \E client \in Clients, text \in BadSends :
        /\ Receives(client, text, "")
        /\ crashed' = TRUE
        /\ UNCHANGED <<impl, self_mode, clients, closed, current_client,
                       discovered_devices, scan_active, scan_found, scans,
                       transports, bt_socket, ble_controller, sent, written>>
        /\ UNCHANGED outsideBridge

NextConnected ==
    \/ NextMessages
    \/ transport_disconnected
    \/ handle_send_raises

ConnectedSocket ==
    [Transport("bt", Handles[1], 1, "A1") EXCEPT !.state = "connected",
                                                 !.opened = TRUE]

InitConnected ==
    /\ InitCodec /\ InitRecv({<<>>}) /\ InitEnc({NoInput})
    /\ budget = MaxSteps
    /\ events = 0
    /\ impl \in {"slink", "slink1"}
    /\ self_mode = "BT"
    /\ crashed = FALSE
    /\ clients = {Handles[1]}
    /\ closed = {}
    /\ current_client = IF impl = "slink" THEN Handles[1] ELSE "unset"
    /\ discovered_devices = {}
    /\ scan_active = FALSE
    /\ scan_found = {}
    /\ scans = 0
    /\ transports = <<ConnectedSocket>>
    /\ bt_socket = 1
    /\ ble_controller = 0
    /\ requests = <<[client |-> Handles[1], method |-> "connect", id |-> 1,
                     peripheralId |-> "A1"]>>
    /\ sent = Sends(on_connected(ConnectedSocket),
                    Activation("on_bt_connected", 1, 0))
    /\ written = <<>>

SpecConnected == InitConnected /\ [][NextConnected]_vars

(***************************************************************************)
(* Properties.                                                             *)
(***************************************************************************)
\* the little-endian 16-bit value at bytes i, i+1 (1-based) of msg
U16(msg, i) == msg[i] + 256 * msg[i + 1]

Builders == {"build_message", "play_tone", "read_sensor", "stop_motor", "start_motor"}

C2_LengthPrefix ==
    (call.op \in Builders /\ ret.err = "none") =>
        /\ U16(ret.bytes, 1) = Len(ret.bytes) - 2
        /\ call.op = "build_message" => U16(ret.bytes, 1) = Len(call.args[2]) + 5

C2_Built ==
    /\ call.op = "build_message"
    /\ ret.err = "none"
    /\ call.args[2] = TonePayload
    /\ U16(ret.bytes, 1) = 15

\* C3: build_message with cmd_type in 0..255, global_vars in 0..1023 and
\* local_vars in 0..63 returns length (2) || counter before the call (2, LE) ||
\* cmd_type (1) || header (2, LE) || payload, the header's low 10 bits being
\* global_vars and its high 6 bits local_vars.
C3_Layout ==
    (/\ call.op = "build_message"
     /\ call.args[1] \in 0..255
     /\ call.args[3] \in 0..1023
     /\ call.args[4] \in 0..63) =>
        /\ ret.err = "none"
        /\ Len(ret.bytes) = 7 + Len(call.args[2])
        /\ U16(ret.bytes, 3) = call.counter
        /\ ret.bytes[5] = call.args[1]
        /\ U16(ret.bytes, 6) % 1024 = call.args[3]
        /\ U16(ret.bytes, 6) \div 1024 = call.args[4]
        /\ SubSeq(ret.bytes, 8, Len(ret.bytes)) = call.args[2]

C3_FullHeader ==
    /\ call.op = "build_message"
    /\ call.args[3] = 1023
    /\ call.args[4] = 63
    /\ call.args[2] # <<>>
    /\ ret.err = "none"
    /\ call.counter > 0

ToneCall ==
    /\ call.counter = 0
    /\ \/ call.op = "play_tone" /\ call.args = <<2, 1000, 1000, FALSE>>
       \/ call.op = "build_message" /\ call.args = <<128, TonePayload, 0, 0>>

\* C4 as stated: on a codec whose counter is 0, play_tone(2, 1000, 1000), and
\* build_message(0x80, payload) on the payload it assembles, give a 15-byte
\* message beginning 0D 00 00 00 80 00 00 94 01 81 02 82 E8 03.
C4_ToneExampleAsStated ==
    ToneCall =>
        /\ ret.err = "none"
        /\ Len(ret.bytes) = 15
        /\ SubSeq(ret.bytes, 1, 14) =
              <<13, 0, 0, 0, 128, 0, 0, 148, 1, 129, 2, 130, 232, 3>>

ToneMessage == <<15, 0, 0, 0, 128, 0, 0, 148, 1, 129, 2, 130, 232, 3, 130, 232, 3>>

\* C4, amended: the message has 17 bytes and its length field is 0x000F; it is
\* 0F 00 00 00 80 00 00 94 01 81 02 82 E8 03 82 E8 03 (counter 0x0000, command
\* type 0x80, header 0x0000).
C4_ToneExample == ToneCall => ret = Ok(ToneMessage)

C4_ToneBuilt ==
    /\ call.op = "play_tone"
    /\ call.args = <<2, 1000, 1000, FALSE>>
    /\ call.counter = 0
    /\ ret.err = "none"
    /\ Len(ret.bytes) = 17

\* what the receive path yields when s arrives in a single read
SingleRead(s) == IF parse_reply(s).ok THEN <<parse_reply(s)>> ELSE <<>>

\* C5: reply parsing is independent of read boundaries: once a stream of
\* complete frames has been delivered and read, in whatever pieces, the frames
\* obtained are those obtained when the whole stream arrives in one read.
C5_ReadBoundaryIndependent ==
    (wire = <<>> /\ rx = <<>>) => frames = SingleRead(stream)

TwoFrameStreams == { f \o g : f \in FrameSet, g \in FrameSet }

\* C6: every frame the parser emits is exactly one length-delimited frame, its
\* payload having size - 3 bytes, and a read that holds two complete frames
\* back to back yields two frames.
C6_OneFramePerLength ==
    /\ \A i \in DOMAIN frames : Len(frames[i].payload) = frames[i].size - 3
    /\ (last_read \in TwoFrameStreams /\ last_read = stream) => Len(frames) = 2

\* C7: parse_reply returns no frame for fewer than 5 bytes, and for 5 bytes or
\* more a frame whose size is the little-endian value of bytes 0-1, whose
\* counter is that of bytes 2-3 and whose type is byte 4.
C7_ParseReplyHeader ==
    IF Len(last_read) < 5
    THEN last_reply = None
    ELSE /\ last_reply.ok
         /\ last_reply.size = U16(last_read, 1)
         /\ last_reply.counter = U16(last_read, 3)
         /\ last_reply.type = last_read[5]

\* a read too short to parse was shown raw, and a later read gave a frame
C7_HeaderParsed ==
    /\ \E i \in DOMAIN received_text : received_text[i] = "Raw"
    /\ Len(last_read) >= 5
    /\ last_reply.ok
    /\ last_reply.counter = 258
    /\ last_reply.size = 7

ValidBuild(args) ==
    /\ args[1] \in 0..255
    /\ args[3] \in 0..1023
    /\ args[4] \in 0..63

\* C8: encode_lc0 raises for every v outside -31..31 and returns one byte for
\* every v inside; a call that raises leaves the codec as it was, and
\* build_message on that codec afterwards still returns, with the counter the
\* codec had.
C8_Lc0Range ==
    [][/\ call'.op = "encode_lc0" =>
             /\ call'.args[1] \notin -31..31 =>
                   /\ ret'.err = "ValueError"
                   /\ msg_counter' = msg_counter
                   /\ built' = built
             /\ call'.args[1] \in -31..31 =>
                   /\ ret'.err = "none"
                   /\ Len(ret'.bytes) = 1
       /\ (lc0_failed /\ call'.op = "build_message" /\ ValidBuild(call'.args)) =>
             /\ ret'.err = "none"
             /\ U16(ret'.bytes, 3) = msg_counter]_vars

\* an encode_lc0 call raised, and the first build_message on that codec returned
C8_BuildAfterFailure ==
    /\ lc0_failed
    /\ call.op = "build_message"
    /\ ret.err = "none"
    /\ built = 1

\* C9: for v in -31..31 encode_lc0(v) is the single byte v mod 64; so
\* encode_lc0(5) is 0x05 and encode_lc0(-1) is 0x3F.
C9_Lc0Value ==
    call.op = "encode_lc0" =>
        /\ call.args[1] \in -31..31 => ret = Ok(<<call.args[1] % 64>>)
        /\ call.args[1] = 5 => ret = Ok(<<5>>)
        /\ call.args[1] = -1 => ret = Ok(<<63>>)

C9_MinusOne == call.op = "encode_lc0" /\ call.args = <<-1>> /\ ret = Ok(<<63>>)

\* the 6-bit two's-complement form of v in -32..31
TwosComplement6(v) == IF v >= 0 THEN v ELSE 64 + v

Lc0InRange == call.op = "encode_lc0" /\ call.args[1] \in -31..31

\* C10 as stated: for v in -31..31 the byte encode_lc0(v) returns has its two
\* high bits (0x80, 0x40) set and its low 6 bits the two's complement of v.
C10_TagBitsSet ==
    Lc0InRange =>
        /\ Len(ret.bytes) = 1
        /\ BitAnd(ret.bytes[1], 128) = 128
        /\ BitAnd(ret.bytes[1], 64) = 64
        /\ BitAnd(ret.bytes[1], 63) = TwosComplement6(call.args[1])

\* C10, amended: the two high bits are clear (the tag of a short constant is
\* 00) and the low 6 bits are the two's complement of v.
C10_TagBitsClear ==
    Lc0InRange =>
        /\ Len(ret.bytes) = 1
        /\ BitAnd(ret.bytes[1], 128) = 0
        /\ BitAnd(ret.bytes[1], 64) = 0
        /\ BitAnd(ret.bytes[1], 63) = TwosComplement6(call.args[1])

C10_Negative == call.op = "encode_lc0" /\ call.args = <<-31>> /\ ret = Ok(<<33>>)

\* the signed value of the 6-bit, 8-bit and 16-bit two's-complement forms
SignExtend6(u) == IF u >= 32 THEN u - 64 ELSE u
SignExtend8(u) == IF u >= 128 THEN u - 256 ELSE u
SignExtend16(u) == IF u >= 32768 THEN u - 65536 ELSE u

\* the signed value of four little-endian bytes
DecodeInt32(b) ==
    SignExtend8(b[4]) * 16777216 + b[3] * 65536 + b[2] * 256 + b[1]

\* C11: each fixed-width constant encoding round-trips over its signed range:
\* the sign-extended low 6 bits of encode_lc0(v) are v for v in -31..31, the
\* sign-extended byte after the tag of encode_lc1(v) is v for v in -128..127,
\* and the little-endian signed payload of encode_lc2(v) and encode_lc4(v) is
\* v for v in -32768..32767 and -2^31..2^31-1.
C11_RoundTrip ==
    enc_out # NotCalled =>
        /\ (enc_in.op = "encode_lc0" /\ enc_in.value \in -31..31) =>
              /\ enc_out.err = "none"
              /\ Len(enc_out.bytes) = 1
              /\ SignExtend6(BitAnd(enc_out.bytes[1], 63)) = enc_in.value
        /\ enc_in.op = "encode_lc1" =>
              /\ enc_out.err = "none"
              /\ Len(enc_out.bytes) = 2
              /\ SignExtend8(enc_out.bytes[2]) = enc_in.value
        /\ enc_in.op = "encode_lc2" =>
              /\ enc_out.err = "none"
              /\ Len(enc_out.bytes) = 3
              /\ SignExtend16(U16(enc_out.bytes, 2)) = enc_in.value
        /\ enc_in.op = "encode_lc4" =>
              /\ enc_out.err = "none"
              /\ Len(enc_out.bytes) = 5
              /\ DecodeInt32(SubSeq(enc_out.bytes, 2, 5)) = enc_in.value

\* the smallest 4-byte value was encoded, as 83 00 00 00 80
C11_MinInt32 ==
    /\ enc_in = [op |-> "encode_lc4", value |-> (0 - 2147483647) - 1]
    /\ enc_out = Ok(<<131, 0, 0, 0, 128>>)

\* the low byte and the two little-endian bytes of a two's-complement value
Byte(v) == v % 256
Word(v) == <<(v % 65536) % 256, (v % 65536) \div 256>>

\* the bytes of a returned message after length, counter, type and header
PayloadOf(msg) == SubSeq(msg, 8, Len(msg))

\* C12: play_tone(volume, frequency, duration, reply) returns build_message
\* applied to the payload 94 01, 81 volume, 82 frequency, 82 duration with
\* header 0; the command-type byte is 0x00 when reply is true and 0x80 when it
\* is false.
C12_PlayTone ==
    (/\ call.op = "play_tone"
     /\ call.args[2] \in -32768..32767
     /\ call.args[3] \in -32768..32767) =>
        LET payload == <<148, 1, 129, Byte(call.args[1]), 130>>
                       \o Word(call.args[2]) \o <<130>> \o Word(call.args[3])
            type == IF call.args[4] THEN 0 ELSE 128
            expected == build_message(call.counter, type, payload, 0, 0)
        IN  /\ ret = [err |-> expected.err, bytes |-> expected.bytes]
            /\ msg_counter = expected.counter
            /\ ret.err = "none"
            /\ ret.bytes[5] = type
            /\ ret.bytes[6] = 0 /\ ret.bytes[7] = 0
            /\ PayloadOf(ret.bytes) = payload

\* a tone with a negative volume was built with a reply requested
C12_ReplyTone ==
    /\ call.op = "play_tone"
    /\ call.args = <<-1, 1000, 1000, TRUE>>
    /\ ret.err = "none"
    /\ ret.bytes[5] = 0

\* C13: read_sensor(port, mode) for port and mode in -31..31 builds a
\* reply-expected direct command (type byte 0x00) with header bytes 04 00 and
\* payload 99 1D, lc0(0), lc0(port), lc0(0), lc0(mode), lc0(1), gv0(0).
C13_ReadSensor ==
    (/\ call.op = "read_sensor"
     /\ call.args[1] \in -31..31
     /\ call.args[2] \in -31..31) =>
        /\ ret.err = "none"
        /\ ret.bytes[5] = 0
        /\ ret.bytes[6] = 4 /\ ret.bytes[7] = 0
        /\ PayloadOf(ret.bytes) =
              <<153, 29, 0, call.args[1] % 64, 0, call.args[2] % 64, 1, 96>>

\* a sensor read was built for a negative port
C13_NegativePort ==
    /\ call.op = "read_sensor"
    /\ call.args = <<-31, 31>>
    /\ ret.err = "none"

\* C14: start_motor(motor_bits, speed) produces one no-reply message (type
\* 0x80, length prefix covering all that is returned) that consumes exactly one
\* counter value, and whose payload is A5 00 lc0(bits) lc1(speed) immediately
\* followed by A6 00 lc0(bits).
C14_StartMotor ==
    (call.op = "start_motor" /\ call.args[1] \in -31..31) =>
        /\ ret.err = "none"
        /\ U16(ret.bytes, 1) = Len(ret.bytes) - 2
        /\ U16(ret.bytes, 3) = call.counter
        /\ msg_counter = (call.counter + 1) % 65536
        /\ ret.bytes[5] = 128
        /\ PayloadOf(ret.bytes) =
              <<165, 0, call.args[1] % 64, 129, Byte(call.args[2]),
                166, 0, call.args[1] % 64>>

\* motors A-D were started in reverse
C14_Started ==
    /\ call.op = "start_motor"
    /\ call.args = <<15, -100>>
    /\ ret.err = "none"
    /\ Len(ret.bytes) = 15

\* the sendTextMessage calls made while request r was being handled
SentHandling(r) ==
    { k \in DOMAIN sent :
        /\ sent[k].by.req = r
        /\ sent[k].by.handler \in {"handle_discover", "handle_connect", "handle_send"} }

\* C15: a discover request with id i is acknowledged within its handling: the
\* requesting client is sent exactly one success response {id: i, result:
\* null}, no other message is sent while the request is handled and no other
\* response carries its id, and that response precedes every
\* didDiscoverPeripheral notification of the scan the request started.
C15_DiscoverAck ==
    \A r \in DOMAIN requests :
        requests[r].method = "discover" =>
            /\ Cardinality(SentHandling(r)) = 1
            /\ \A k \in SentHandling(r) :
                  /\ sent[k].to = requests[r].client
                  /\ sent[k].msg = Success(r, Null)
                  /\ \A j \in DOMAIN sent :
                        (/\ sent[j].msg.kind = "didDiscoverPeripheral"
                         /\ sent[k].by.scan > 0
                         /\ sent[j].by.scan = sent[k].by.scan) => k < j
            /\ \A j \in DOMAIN sent :
                  (sent[j].msg.kind = "result" /\ sent[j].msg.id = r) =>
                      j \in SentHandling(r)

\* a scan has reported a device after the discover that started it was answered
C15_NotifiedAfterAck ==
    \E k, j \in DOMAIN sent :
        /\ sent[k].by.handler = "handle_discover"
        /\ sent[k].by.scan > 0
        /\ sent[j].msg.kind = "didDiscoverPeripheral"
        /\ sent[j].by.scan = sent[k].by.scan
        /\ k < j

\* C16: starting a scan clears the device registry, so that from then on, and
\* in particular once the scan has finished, the registry holds exactly the
\* addresses discovered during the most recent scan: no address of an earlier
\* scan remains.
C16_RegistryIsLatestScan ==
    (impl = "slink" /\ scans > 0) => discovered_devices = scan_found

\* request r is being handled in this step
Handling(r, method) ==
    /\ Len(requests) = r - 1
    /\ Len(requests') = r
    /\ requests'[r].method = method

\* this step sends exactly one message, an error to client whose text is message
SendsError(client, message) ==
    /\ Len(sent') = Len(sent) + 1
    /\ SubSeq(sent', 1, Len(sent)) = sent
    /\ sent'[Len(sent')].to = client
    /\ sent'[Len(sent')].msg.kind = "error"
    /\ message \in {"", sent'[Len(sent')].msg.message}

\* the transports this client's connects created that are connecting or open
Owned(ts, client) ==
    { t \in DOMAIN ts :
        /\ ts[t].client = client
        /\ ts[t].alive
        /\ ts[t].state \in {"connecting", "connected"} }

\* C17 (experiments/slink.py): in BLE mode a connect request whose
\* peripheralId has no entry in the device registry sends the client an error
\* citing 'not found', creates no transport object (transports, bt_socket and
\* ble_controller unchanged, so no connect call is issued) and leaves an Idle
\* session Idle.
C17_UnknownPeripheral ==
    [][\A r \in 1..MaxReqs :
          (/\ impl = "slink"
           /\ self_mode = "BLE"
           /\ Handling(r, "connect")
           /\ requests'[r].peripheralId \notin discovered_devices) =>
              /\ SendsError(requests'[r].client,
                            "Device not found. Please discover devices first.")
              /\ sent'[Len(sent')].msg.peripheralId = requests'[r].peripheralId
              /\ transports' = transports
              /\ bt_socket' = bt_socket
              /\ ble_controller' = ble_controller
              /\ Owned(transports, requests'[r].client) = {} =>
                    Owned(transports', requests'[r].client) = {}]_vars

\* with one address in the registry, a connect to the other was refused
C17_Refused ==
    /\ impl = "slink"
    /\ self_mode = "BLE"
    /\ discovered_devices = {"A1"}
    /\ transports = <<>>
    /\ requests # <<>>
    /\ requests[Len(requests)].method = "connect"
    /\ requests[Len(requests)].peripheralId = "A2"
    /\ sent # <<>>
    /\ sent[Len(sent)].msg =
          ErrorMsg("Device not found. Please discover devices first.", "A2")

\* the success responses that carry the id of connect request r
ConnectAcks(r) ==
    { k \in DOMAIN sent : sent[k].msg.kind = "result" /\ sent[k].msg.id = r }

\* C18: when the transport signals connected for a connect request, the client
\* that issued the request is sent a success response carrying the id of that
\* request; no response with the id of a connect request is sent before the
\* connected signal of its transport, or to another client.
C18_ConnectAck ==
    /\ \A t \in DOMAIN transports :
          /\ requests[transports[t].req].method = "connect"
          /\ requests[transports[t].req].client = transports[t].client
          /\ Cardinality(ConnectAcks(transports[t].req)) =
                IF transports[t].opened THEN 1 ELSE 0
    /\ \A r \in DOMAIN requests :
          requests[r].method = "connect" =>
              \A k \in ConnectAcks(r) :
                  /\ sent[k].to = requests[r].client
                  /\ sent[k].msg = Success(r, Null)
                  /\ \E t \in DOMAIN transports :
                        transports[t].req = r /\ transports[t].opened

\* a connect was acknowledged after a later request had been answered
C18_AckAfterLaterRequest ==
    \E k, j \in DOMAIN sent :
        /\ sent[k].by.handler \in {"on_bt_connected", "on_ble_connected"}
        /\ sent[k].msg = Success(sent[k].by.req, Null)
        /\ j < k
        /\ sent[j].by.req > sent[k].by.req

\* C19 (experiments/slink.py): when the transport reports an error for a
\* pending connect, the client is sent an error message and the session
\* returns to Idle: it owns no transport connection afterwards, and a send
\* would find no connected socket to write to.
C19_ErrorReturnsToIdle ==
    [][\A t \in DOMAIN transports :
          (/\ impl = "slink"
           /\ transports[t].alive
           /\ transports[t].state = "connecting"
           /\ DOMAIN transports' = DOMAIN transports
           /\ transports'[t].state = "unconnected") =>
              /\ SendsError(transports[t].client, "")
              /\ Owned(transports', transports[t].client) = {}
              /\ ~(/\ self_mode = "BT"
                   /\ bt_socket' # 0
                   /\ socket_connected(transports', bt_socket'))]_vars

\* a connect is pending for the client: issued, alive, neither connected nor failed
Pending(client) ==
    \E t \in DOMAIN transports :
        /\ transports[t].client = client
        /\ transports[t].alive
        /\ transports[t].state = "connecting"

\* C20: at most one connect is pending per session: a connect request received
\* while an earlier connect of the session is pending is rejected with an
\* error message, creates no transport object and does not replace the
\* pending one.
C20_SecondConnectRejected ==
    [][\A r \in 1..MaxReqs :
          (Handling(r, "connect") /\ Pending(requests'[r].client)) =>
              /\ SendsError(requests'[r].client, "")
              /\ transports' = transports
              /\ bt_socket' = bt_socket
              /\ ble_controller' = ble_controller]_vars

\* C21: a session owns at most one open transport connection: a connect
\* handled while a transport of the session is connected closes it before the
\* new one is opened, so while one transport of a client is connected the
\* client has no other transport connecting or connected.
C21_OneOpenTransport ==
    \A client \in Clients :
        \A t, u \in Owned(transports, client) :
            t # u => transports[t].state # "connected"

\* the transport that handle_send consults is absent, connecting or failed
NotConnected ==
    IF self_mode = "BT"
    THEN bt_socket = 0 \/ transports[bt_socket].state # "connected"
    ELSE ble_controller = 0 \/ transports[ble_controller].state # "connected"

C23_WriteOnlyWhenConnected ==
    [][\A r \in 1..(MaxReqs + 1) :
          (impl = "slink1" /\ Handling(r, "send") /\ NotConnected) =>
              /\ written' = written
              /\ \A k \in (Len(sent) + 1)..Len(sent') :
                    sent'[k].msg.kind # "result"]_vars

\* no transport of the server is open
Idle == \A t \in DOMAIN transports :
            ~(transports[t].alive /\ transports[t].state = "connected")

\* C24: a read request handled while the session is Idle (no open transport)
\* is rejected with an error message sent to the client, and touches no
\* transport.
C24_ReadWhileIdle ==
    [][\A r \in 1..(MaxReqs + 1) :
          (Handling(r, "read") /\ Idle) =>
              /\ SendsError(requests'[r].client, "")
              /\ transports' = transports]_vars

\* the transport the server holds for its mode is open and was opened by client
ConnectedFor(client) ==
    LET held == IF self_mode = "BT" THEN bt_socket ELSE ble_controller
    IN  /\ held # 0
        /\ transports[held].client = client
        /\ transports[held].alive
        /\ transports[held].state = "connected"

\* C25: a send request with id i handled in Connected state writes the decoded
\* payload to the transport exactly once and sends the client exactly one
\* message, the success response with id i whose result is the number of
\* bytes written.
C25_SendWhenConnected ==
    [][\A r \in 1..(MaxReqs + 1) :
          (Handling(r, "send") /\ ConnectedFor(requests'[r].client)) =>
              /\ Len(written') = Len(written) + 1
              /\ written'[Len(written')].payload = Payload
              /\ written'[Len(written')].accepted
              /\ Len(sent') = Len(sent) + 1
              /\ sent'[Len(sent')].to = requests'[r].client
              /\ sent'[Len(sent')].msg = Success(r, <<Len(Payload)>>)]_vars

\* the bytes that a sequence of base64 symbols stands for
RECURSIVE b64decode(_)
b64decode(symbols) ==
    IF symbols = <<>> THEN <<>>
    ELSE LET s == SubSeq(symbols, 1, 4)
             first == s[1] * 4 + s[2] \div 16
             second == (s[2] % 16) * 16 + s[3] \div 4
             third == (s[3] % 4) * 64 + s[4]
         IN  (IF s[3] = 64 THEN <<first>>
              ELSE IF s[4] = 64 THEN <<first, second>>
              ELSE <<first, second, third>>)
             \o b64decode(SubSeq(symbols, 5, Len(symbols)))

\* C26: read is a non-blocking poll: when the connected transport has 0 bytes
\* available a read request sends nothing; when it has n > 0 bytes available
\* the request sends exactly one didReceiveMessage notification, without id,
\* whose base64 text decodes to all n bytes, and leaves 0 bytes buffered.
C26_ReadPolls ==
    [][\A r \in 1..(MaxReqs + 1) :
          (/\ Handling(r, "read")
           /\ self_mode = "BT"
           /\ bt_socket # 0
           /\ transports[bt_socket].state = "connected") =>
              IF transports[bt_socket].buffered = <<>>
              THEN sent' = sent /\ transports' = transports
              ELSE /\ Len(sent') = Len(sent) + 1
                   /\ SubSeq(sent', 1, Len(sent)) = sent
                   /\ sent'[Len(sent')].to = requests'[r].client
                   /\ sent'[Len(sent')].msg.kind = "didReceiveMessage"
                   /\ sent'[Len(sent')].msg.id = 0
                   /\ Len(sent'[Len(sent')].msg.data) % 4 = 0
                   /\ b64decode(sent'[Len(sent')].msg.data) =
                         transports[bt_socket].buffered
                   /\ transports'[bt_socket].buffered = <<>>]_vars

\* a read found two bytes in the socket and delivered them as "AQI="
C26_ReadDelivered ==
    /\ sent # <<>>
    /\ sent[Len(sent)].by.handler = "handle_read"
    /\ sent[Len(sent)].msg.data = <<0, 16, 8, 64>>
    /\ bt_socket # 0
    /\ transports[bt_socket].buffered = <<>>

\* neither the scan, nor the registry, nor any transport, nor the clients change
SessionUnchanged ==
    UNCHANGED <<clients, closed, current_client, discovered_devices,
                scan_active, scan_found, scans, transports, bt_socket,
                ble_controller, written>>

\* C27: a request whose method is none of discover, connect, send and read
\* (a request without method field included) sends the client exactly one
\* error message naming that method and changes no session state: no scan is
\* started, no transport is created or written, the registry is unchanged.
C27_UnknownMethod ==
    [][\A r \in 1..(MaxReqs + 1) :
          (/\ Len(requests) = r - 1
           /\ Len(requests') = r
           /\ requests'[r].method \in {"foo", "None"}) =>
              /\ SendsError(requests'[r].client,
                            IF requests'[r].method = "foo"
                            THEN "Unknown method: foo"
                            ELSE "Unknown method: None")
              /\ ~crashed'
              /\ SessionUnchanged]_vars

\* a request without method was refused while a connect was pending
C27_NoMethodRefused ==
    /\ requests # <<>>
    /\ requests[Len(requests)].method = "None"
    /\ sent # <<>>
    /\ sent[Len(sent)].msg = ErrorMsg("Unknown method: None", "")
    /\ sent[Len(sent)].to = requests[Len(requests)].client
    /\ \E t \in DOMAIN transports : transports[t].state = "connecting"

\* C28: every client message that is not decodable as the request envelope
\* (text that is not JSON, JSON whose top-level value is not an object)
\* results in exactly one error message to that client and leaves the session
\* state unchanged.
C28_InvalidRequest ==
    [][\A r \in 1..(MaxReqs + 1) :
          (/\ Len(requests) = r - 1
           /\ Len(requests') = r
           /\ requests'[r].method \in {"not JSON", "JSON list"}) =>
              /\ SendsError(requests'[r].client, "")
              /\ ~crashed'
              /\ SessionUnchanged]_vars

\* C29: when a client disconnects while its session owns a transport that is
\* connecting or connected, the bridge closes and releases it: after
\* on_client_disconnected the session owns no such transport and the server
\* holds no handle of one.
C29_DisconnectReleases ==
    [][\A client \in Clients :
          (/\ client \in clients
           /\ client \notin clients'
           /\ Owned(transports, client) # {}) =>
              /\ Owned(transports', client) = {}
              /\ bt_socket' = 0 \/ transports'[bt_socket'].client # client
              /\ ble_controller' = 0
                    \/ transports'[ble_controller'].client # client]_vars

\* C30: after a client's disconnect has been handled no message is sent to
\* that client handle again, whatever events follow.
C30_NothingSentToClosed ==
    [][\A k \in (Len(sent) + 1)..Len(sent') : sent'[k].to \notin closed]_vars

\* the socket handle_send consults was open once and its link has closed
ClosedLink ==
    /\ self_mode = "BT"
    /\ bt_socket # 0
    /\ transports[bt_socket].opened
    /\ transports[bt_socket].state = "unconnected"

\* C31: when the transport disconnects while the client is still connected,
\* the bridge sends the client an error notification without id and the
\* session reverts to Idle (it owns no transport, and a later send is refused
\* with an error and writes nothing), and the client stays registered.
C31_TransportClosed ==
    [][/\ \A t \in DOMAIN transports :
             (/\ transports[t].alive
              /\ transports[t].state = "connected"
              /\ transports[t].client \in clients
              /\ DOMAIN transports' = DOMAIN transports
              /\ transports'[t].state = "unconnected") =>
                 /\ SendsError(transports[t].client, "")
                 /\ sent'[Len(sent')].msg.id = 0
                 /\ Owned(transports', transports[t].client) = {}
                 /\ transports[t].client \in clients'
       /\ \A r \in 1..(MaxReqs + 1) :
             (Handling(r, "send") /\ ClosedLink) =>
                 /\ SendsError(requests'[r].client, "")
                 /\ written' = written]_vars

\* C32: discovery notifications never leak between clients: every
\* didDiscoverPeripheral notification goes to the client whose discover
\* request started the scan that found the device, never to a client that
\* issued a discover or a connect request later.
C32_NotificationsToScanOwner ==
    \A k \in DOMAIN sent :
        sent[k].msg.kind = "didDiscoverPeripheral" =>
            \E j \in 1..(k - 1) :
                /\ sent[j].by.handler = "handle_discover"
                /\ sent[j].by.scan = sent[k].by.scan
                /\ sent[j].to = sent[k].to

\* C33: no client text message makes the message handler end in an unhandled
\* exception: for text that is not JSON, JSON that is not an object, and a
\* send whose message is missing or is not valid base64, on_message_received
\* completes normally and reports the failure to the client as one error
\* message.
C33_NoUnhandledException ==
    [][\A r \in 1..(MaxReqs + 1) :
          (/\ Len(requests) = r - 1
           /\ Len(requests') = r
           /\ requests'[r].method \in Undecodable \cup BadSends) =>
              /\ ~crashed'
              /\ SendsError(requests'[r].client, "")]_vars

\* the socket whose bytes the notification sent[k] carries: the one that
\* signalled readyRead, or the one self.bt_socket named when the read request
\* was handled (the socket of the latest connect before it)
SourceOf(k) ==
    IF sent[k].by.handler = "on_bt_data_ready"
    THEN CHOOSE t \in DOMAIN transports : transports[t].req = sent[k].by.req
    ELSE CHOOSE t \in DOMAIN transports :
            /\ transports[t].req < sent[k].by.req
            /\ \A u \in DOMAIN transports :
                  transports[u].req < sent[k].by.req => u <= t

\* the payloads of the first k messages that carry bytes of socket t, decoded
\* and concatenated in send order
RECURSIVE DeliveredUpTo(_, _)
DeliveredUpTo(t, k) ==
    IF k = 0 THEN <<>>
    ELSE DeliveredUpTo(t, k - 1)
         \o (IF sent[k].msg.kind = "didReceiveMessage" /\ SourceOf(k) = t
             THEN b64decode(sent[k].msg.data)
             ELSE <<>>)

\* C34: inbound bytes reach the client exactly once and in transport order
\* under every interleaving of data-ready events and read requests: the
\* payloads of the didReceiveMessage notifications drawn from a socket,
\* concatenated in send order and followed by the bytes still buffered, are
\* exactly the bytes the socket received (so the notifications are a prefix of
\* them, nothing duplicated, dropped or reordered between the push path and
\* the poll path), and in experiments/slink.py they go to the client that
\* opened the socket.
C34_InOrderExactlyOnce ==
    /\ \A t \in DOMAIN transports :
          DeliveredUpTo(t, Len(sent)) \o transports[t].buffered
             = transports[t].received
    /\ \A k \in DOMAIN sent :
          (impl = "slink" /\ sent[k].msg.kind = "didReceiveMessage") =>
              sent[k].to = transports[SourceOf(k)].client

\* two pieces were pushed, a read request handled between them found nothing
C34_PushReadPush ==
    /\ impl = "slink"
    /\ transports[1].received = <<1, 2, 255>>
    /\ transports[1].buffered = <<>>
    /\ \E j, k \in DOMAIN sent :
          /\ j < k
          /\ sent[j].msg = DidReceive(<<1, 2>>)
          /\ sent[k].msg = DidReceive(<<255>>)
          /\ sent[j].to = "c1"
          /\ sent[k].to = "c1"
    /\ Len(requests) = 2
    /\ requests[2].method = "read"

\* C35: push delivery needs no read request: when a connected transport
\* signals data-ready with bytes available, the handling of that signal sends
\* them to the client that opened it in a didReceiveMessage notification and
\* leaves nothing buffered for a read request to fetch.
C35_PushWithoutRead ==
    [][\A t \in DOMAIN transports :
          (/\ transports[t].alive
           /\ transports[t].state = "connected"
           /\ DOMAIN transports' = DOMAIN transports
           /\ Len(transports'[t].received) > Len(transports[t].received)) =>
              /\ Len(sent') = Len(sent) + 1
              /\ sent'[Len(sent')].to = transports[t].client
              /\ sent'[Len(sent')].msg.kind = "didReceiveMessage"
              /\ transports'[t].buffered = <<>>]_vars

\* C36: the two transport variants are mutually exclusive: bt_socket and
\* ble_controller are never both set, and only the handle that matches the
\* mode the server was constructed with is ever set.
C36_ExclusiveHandles ==
    /\ bt_socket = 0 \/ ble_controller = 0
    /\ self_mode = "BT" => ble_controller = 0
    /\ self_mode = "BLE" => bt_socket = 0

\* a low-energy server has connected a controller and holds no socket
C36_ControllerOnly ==
    /\ self_mode = "BLE"
    /\ ble_controller # 0
    /\ transports[ble_controller].kind = "ble"
    /\ transports[ble_controller].state = "connected"
    /\ bt_socket = 0

\* C37: a command build that fails leaves the codec counter unchanged: for
\* every call of build_message, play_tone, read_sensor, start_motor or
\* stop_motor that raises (operand outside the short-constant range, command
\* type outside 0..255, header value or total length not representable in 16
\* bits), msg_counter after the call equals msg_counter before it.
C37_FailedBuildKeepsCounter ==
    [][(call'.op \in Builders /\ ret'.err # "none") =>
          msg_counter' = msg_counter]_vars

\* C38 (slink1.py): every send request whose payload decodes is answered: in
\* either mode and in any connection state its handling sends the requesting
\* client exactly one message, the success response carrying the request id
\* or an error message.
C38_SendAnswered ==
    [][\A r \in 1..(MaxReqs + 1) :
          (impl = "slink1" /\ Handling(r, "send")) =>
              /\ Len(sent') = Len(sent) + 1
              /\ sent'[Len(sent')].to = requests'[r].client
              /\ \/ sent'[Len(sent')].msg.kind = "error"
                 \/ /\ sent'[Len(sent')].msg.kind = "result"
                    /\ sent'[Len(sent')].msg.id = r]_vars

====
